---- MODULE Spec2Model ----
(***************************************************************************)
(* The three one-shot patch scripts of src/tmp: fix_admin_type.py,         *)
(* fix_query.py and fix_consensus_query.py.  Each reads one file in full,  *)
(* applies one re.sub and writes the result back to the same path.         *)
(*                                                                         *)
(* A document is a sequence of symbols.  A symbol is either one whitespace *)
(* character (" ", "\n", "\t") or one maximal run of non-whitespace        *)
(* characters ("user:", "{", "string;", ...).  The patterns of the scripts *)
(* consist of literal characters and \s* only, so a pattern is a sequence  *)
(* of literal symbols and the element WS_STAR, and matching is done symbol *)
(* by symbol the way the regex engine does it character by character.      *)
(***************************************************************************)
EXTENDS Integers, Sequences, FiniteSets, TLC

\* ------------------------------------------------------------------ bounds
\* Longest run of whitespace generated between two tokens of a block.
MaxWs == 1
\* Largest number of parts an initial document is built from.
MaxParts == 2

\* ------------------------------------------------------------- the scripts
Scripts == {"fix_admin_type", "fix_query", "fix_consensus_query"}

AdminClientTsx == "AdminApplicationsClient.tsx"
ApplicationTs == "application.ts"
Paths == {AdminClientTsx, ApplicationTs}

\* The path a script opens (the same literal in its two open calls).
Path(s) == IF s = "fix_admin_type" THEN AdminClientTsx ELSE ApplicationTs

\* The element \s* of a pattern.
WS_STAR == "\\s*"

\* r'user: \{\s*id: string;\s*name: string \| null;\s*email: string \| null;\s*profile\?:'
old_user_pattern ==
  << "user:", " ", "{", WS_STAR,
     "id:", " ", "string;", WS_STAR,
     "name:", " ", "string", " ", "|", " ", "null;", WS_STAR,
     "email:", " ", "string", " ", "|", " ", "null;", WS_STAR,
     "profile?:" >>

\* r'user: \{\s*include: \{\s*profile: true,\s*\},\s*\},'
old_pattern ==
  << "user:", " ", "{", WS_STAR,
     "include:", " ", "{", WS_STAR,
     "profile:", " ", "true,", WS_STAR,
     "},", WS_STAR,
     "}," >>

\* A variant of the next pattern that stops after the three selected fields.
old_consensus_pattern_open ==
  << "user:", " ", "{", WS_STAR,
     "select:", " ", "{", WS_STAR,
     "id:", " ", "true,", WS_STAR,
     "name:", " ", "true,", WS_STAR,
     "email:", " ", "true," >>

\* r'user: \{\s*select: \{\s*id: true,\s*name: true,\s*email: true,\s*\},\s*\},'
old_consensus_pattern ==
  << "user:", " ", "{", WS_STAR,
     "select:", " ", "{", WS_STAR,
     "id:", " ", "true,", WS_STAR,
     "name:", " ", "true,", WS_STAR,
     "email:", " ", "true,", WS_STAR,
     "},", WS_STAR,
     "}," >>

\* n spaces of indentation.
Indent(n) == [i \in 1..n |-> " "]

\* One further line of a triple-quoted literal: a newline, n spaces, the text.
Line(n, toks) == <<"\n">> \o Indent(n) \o toks

\* A variant of the next text with adminLabels put before adminNotes.
new_user_replacement_swapped ==
  << "user:", " ", "{" >>
  \o Line(4, << "id:", " ", "string;" >>)
  \o Line(4, << "name:", " ", "string", " ", "|", " ", "null;" >>)
  \o Line(4, << "email:", " ", "string", " ", "|", " ", "null;" >>)
  \o Line(4, << "adminLabels:", " ", "string[];" >>)
  \o Line(4, << "adminNotes:", " ", "string", " ", "|", " ", "null;" >>)
  \o Line(4, << "adminUpdatedAt:", " ", "Date", " ", "|", " ", "null;" >>)
  \o Line(4, << "profile?:" >>)

new_user_replacement ==
  << "user:", " ", "{" >>
  \o Line(4, << "id:", " ", "string;" >>)
  \o Line(4, << "name:", " ", "string", " ", "|", " ", "null;" >>)
  \o Line(4, << "email:", " ", "string", " ", "|", " ", "null;" >>)
  \o Line(4, << "adminNotes:", " ", "string", " ", "|", " ", "null;" >>)
  \o Line(4, << "adminLabels:", " ", "string[];" >>)
  \o Line(4, << "adminUpdatedAt:", " ", "Date", " ", "|", " ", "null;" >>)
  \o Line(4, << "profile?:" >>)

\* A variant of the next text that selects id, name and email only.
new_replacement_narrow ==
  << "user:", " ", "{" >>
  \o Line(12, << "select:", " ", "{" >>)
  \o Line(14, << "id:", " ", "true," >>)
  \o Line(14, << "name:", " ", "true," >>)
  \o Line(14, << "email:", " ", "true," >>)
  \o Line(12, << "}," >>)
  \o Line(10, << "}," >>)

new_replacement ==
  << "user:", " ", "{" >>
  \o Line(12, << "select:", " ", "{" >>)
  \o Line(14, << "id:", " ", "true," >>)
  \o Line(14, << "name:", " ", "true," >>)
  \o Line(14, << "email:", " ", "true," >>)
  \o Line(14, << "adminNotes:", " ", "true," >>)
  \o Line(14, << "adminLabels:", " ", "true," >>)
  \o Line(14, << "adminUpdatedAt:", " ", "true," >>)
  \o Line(14, << "profile:", " ", "true," >>)
  \o Line(12, << "}," >>)
  \o Line(10, << "}," >>)

new_consensus_replacement ==
  << "user:", " ", "{" >>
  \o Line(12, << "select:", " ", "{" >>)
  \o Line(14, << "id:", " ", "true," >>)
  \o Line(14, << "name:", " ", "true," >>)
  \o Line(14, << "email:", " ", "true," >>)
  \o Line(14, << "adminNotes:", " ", "true," >>)
  \o Line(14, << "adminLabels:", " ", "true," >>)
  \o Line(14, << "adminUpdatedAt:", " ", "true," >>)
  \o Line(14, << "profile:", " ", "true," >>)
  \o Line(12, << "}," >>)
  \o Line(10, << "}," >>)

Pattern(s) ==
  CASE s = "fix_admin_type" -> old_user_pattern
    [] s = "fix_query" -> old_pattern
    [] s = "fix_consensus_query" -> old_consensus_pattern

Replacement(s) ==
  CASE s = "fix_admin_type" -> new_user_replacement
    [] s = "fix_query" -> new_replacement
    [] s = "fix_consensus_query" -> new_consensus_replacement

\* The line each script prints last.
Message(s) ==
  CASE s = "fix_admin_type" -> "Updated ApplicationWithUser type"
    [] s = "fix_query" -> "Updated user include section"
    [] s = "fix_consensus_query" -> "Updated getConsensusApplications user select"

\* ------------------------------------------------------------------ re.sub
\* What \s matches.
IsSpace(c) == c \in {" ", "\n", "\t"}

NoMatch == -1

\* The length of the run of whitespace that starts at position pos.
WsRunLen(doc, pos) ==
  CHOOSE k \in 0..(Len(doc) - pos + 1) :
    /\ \A j \in 0..(k - 1) : IsSpace(doc[pos + j])
    /\ (pos + k > Len(doc) \/ ~IsSpace(doc[pos + k]))

\* The regex engine at pattern element i and document position pos: the
\* position after the match, or NoMatch.  \s* is greedy and backtracks: it
\* takes the longest run of whitespace after which the rest still matches.
RECURSIVE MatchFrom(_, _, _, _)
MatchFrom(pat, doc, i, pos) ==
  IF i > Len(pat) THEN pos
  ELSE IF pat[i] = WS_STAR
    THEN LET ok == {j \in 0..WsRunLen(doc, pos) :
                      MatchFrom(pat, doc, i + 1, pos + j) # NoMatch}
         IN  IF ok = {} THEN NoMatch
             ELSE MatchFrom(pat, doc, i + 1,
                            pos + (CHOOSE j \in ok : \A m \in ok : m <= j))
    ELSE IF pos <= Len(doc) /\ doc[pos] = pat[i]
           THEN MatchFrom(pat, doc, i + 1, pos + 1)
           ELSE NoMatch

\* The positions from pos on at which the pattern matches.
MatchStarts(pat, doc, pos) ==
  {i \in pos..Len(doc) : MatchFrom(pat, doc, 1, i) # NoMatch}

\* The scan of re.sub from position pos on: the leftmost match is replaced,
\* what precedes it is copied, and the scan goes on after the match.
RECURSIVE SubFrom(_, _, _, _)
SubFrom(pat, repl, doc, pos) ==
  LET starts == MatchStarts(pat, doc, pos)
  IN  IF starts = {} THEN [out |-> SubSeq(doc, pos, Len(doc)), n |-> 0]
      ELSE LET s == CHOOSE i \in starts : \A j \in starts : i <= j
               r == SubFrom(pat, repl, doc, MatchFrom(pat, doc, 1, s))
           IN  [out |-> SubSeq(doc, pos, s - 1) \o repl \o r.out, n |-> r.n + 1]

\* A variant of the next operator that replaces the leftmost match only, as
\* re.sub does with count=1.
re_sub_first(pat, repl, doc) ==
  LET starts == MatchStarts(pat, doc, 1)
  IN  IF starts = {} THEN [out |-> doc, n |-> 0]
      ELSE LET s == CHOOSE i \in starts : \A j \in starts : i <= j
               e == MatchFrom(pat, doc, 1, s)
           IN  [out |-> SubSeq(doc, 1, s - 1) \o repl \o SubSeq(doc, e, Len(doc)),
                n |-> 1]

\* re.sub(pattern, repl, content, flags=re.MULTILINE | re.DOTALL), with the
\* number of replacements made beside the new text.  The two flags change
\* what ^, $ and . match, none of which the patterns use; the replacement
\* texts hold no backslash, so they are put as they are.
re_sub(pat, repl, doc) == SubFrom(pat, repl, doc, 1)

\* ------------------------------------------------------ initial documents
\* The whitespace characters initial documents are laid out with.
LayoutChars == {" ", "\n"}

\* Every run of at most n layout characters.
RECURSIVE WsRuns(_)
WsRuns(n) ==
  IF n = 0 THEN {<< >>}
  ELSE LET shorter == WsRuns(n - 1)
       IN  shorter \cup {Append(w, c) : w \in shorter, c \in LayoutChars}

\* The line break and two-space indentation of the type block of Scenario 1.
ScenarioIndent == << "\n", " ", " " >>

\* What follows `profile?:` in the document of Scenario 1.
ScenarioTail == << " ", "Profile;", "\n", "}" >>

Gaps == WsRuns(MaxWs) \cup {ScenarioIndent}

\* The number of literal single spaces of a pattern.
NumSpaces(pat) == Cardinality({i \in 1..Len(pat) : pat[i] = " "})

\* The fragment a pattern targets, laid out with gap g wherever the pattern
\* has \s* and with one space wherever it has a literal space, except that the
\* at-th literal space (at = 0: none) is followed by the extra whitespace g.
RECURSIVE RenderFrom(_, _, _, _, _)
RenderFrom(pat, i, k, g, at) ==
  IF i > Len(pat) THEN << >>
  ELSE IF pat[i] = WS_STAR THEN g \o RenderFrom(pat, i + 1, k, g, at)
  ELSE IF pat[i] = " "
    THEN (IF k + 1 = at THEN << " " >> \o g ELSE << " " >>)
         \o RenderFrom(pat, i + 1, k + 1, g, at)
    ELSE << pat[i] >> \o RenderFrom(pat, i + 1, k, g, at)

Render(pat, g, at) == RenderFrom(pat, 1, 0, g, at)

ScriptsOn(path) == {s \in Scripts : Path(s) = path}

\* The parts a document of `path` is built from: a targeted block in the
\* spacing the pattern spells ("block"), the same block with extra whitespace
\* after one of its literal spaces ("wide"), an already patched block
\* ("repl"; fix_query and fix_consensus_query put the same text, which is
\* listed once) and the tail of Scenario 1 ("tail").
PartKinds(path) ==
  {[kind |-> k, of |-> s] : k \in {"block", "wide"}, s \in ScriptsOn(path)}
  \cup {[kind |-> "repl", of |-> s] :
          s \in ScriptsOn(path) \ {"fix_consensus_query"}}
  \cup {[kind |-> "tail", of |-> "none"]}

PartText(part, g, at) ==
  CASE part.kind = "block" -> Render(Pattern(part.of), g, 0)
    [] part.kind = "wide" -> Render(Pattern(part.of), g, at)
    [] part.kind = "repl" -> Replacement(part.of)
    [] part.kind = "tail" -> ScenarioTail

RECURSIVE Concat(_, _, _)
Concat(parts, g, at) ==
  IF parts = << >> THEN << >>
  ELSE PartText(Head(parts), g, at) \o Concat(Tail(parts), g, at)

NumWide(parts) == Cardinality({i \in 1..Len(parts) : parts[i].kind = "wide"})

\* The descriptions of the initial documents of `path`: at most MaxParts
\* parts; a wide block, if any, is the last part, with a nonempty extra gap
\* after a literal space the block has.
Layouts(path) ==
  {[path |-> path, parts |-> ps, gap |-> g, at |-> a] :
     ps \in UNION {[1..n -> PartKinds(path)] : n \in 0..MaxParts},
     g \in Gaps, a \in 0..NumSpaces(old_user_pattern)}

WellFormed(d) ==
  /\ \A i \in 1..Len(d.parts) :
       d.parts[i].kind = "wide" =>
         /\ i = Len(d.parts)
         /\ d.gap # << >>
         /\ d.at \in 1..NumSpaces(Pattern(d.parts[i].of))
  /\ NumWide(d.parts) = 0 => d.at = 0

DocOf(d) == Concat(d.parts, d.gap, d.at)

\* -------------------------------------------------------------------- state
Procs == {1, 2}

Missing == "missing"
Unset == "unset"

VARIABLES
  fs,               \* path -> the persisted content of the file, or Missing
  pc,               \* proc -> where the run of the script is
  script,           \* proc -> the script the run executes
  content,          \* proc -> the script's variable `content`
  updated_content,  \* proc -> the script's variable `updated_content`
  nsub,             \* proc -> the number of replacements re.sub made
  handles,          \* proc -> the modes of the file objects the run holds open
  stdout,           \* proc -> the lines the run has printed
  exitCode,         \* proc -> the exit status of the interpreter, -1 while running
  sawOther,         \* proc -> where the other run was when this one opened the file
  doc0              \* how the initial document was laid out

vars == << fs, pc, script, content, updated_content, nsub, handles, stdout,
           exitCode, sawOther, doc0 >>

Running == -1

Terminal(p) == pc[p] \in {"done", "aborted"}

InitProcs ==
  /\ pc = [p \in Procs |-> "start"]
  /\ content = [p \in Procs |-> Unset]
  /\ updated_content = [p \in Procs |-> Unset]
  /\ nsub = [p \in Procs |-> 0]
  /\ handles = [p \in Procs |-> {}]
  /\ stdout = [p \in Procs |-> << >>]
  /\ exitCode = [p \in Procs |-> Running]
  /\ sawOther = [p \in Procs |-> "none"]

\* The layout recorded when the target file does not exist.
NoFile(path) == [path |-> path, parts |-> << >>, gap |-> << >>, at |-> -1]

Exists(d) == d.at # -1

\* The first document each run of the next specifications may find: the file
\* of `path` holds the document laid out as d, or does not exist.
InitFiles(path, d) ==
  /\ doc0 = d
  /\ fs = [q \in Paths |-> IF q = path /\ Exists(d) THEN DocOf(d) ELSE Missing]

\* Two runs, each of any script whose target is `path`.
Init ==
  /\ \E path \in Paths :
       /\ \E d \in Layouts(path) \cup {NoFile(path)} :
            /\ Exists(d) => WellFormed(d)
            /\ InitFiles(path, d)
       /\ script \in [Procs -> ScriptsOn(path)]
  /\ InitProcs

\* ------------------------------------------------------------------ actions
Other(p) == CHOOSE q \in Procs : q # p

\* Whether run p has not begun, has exited, or is in between.
Phase(p) ==
  IF pc[p] = "start" THEN "start"
  ELSE IF Terminal(p) THEN "exited"
  ELSE "running"

\* open(path, 'r') succeeds: the file exists and is readable.
OpenRead(p) ==
  /\ pc[p] = "start"
  /\ fs[Path(script[p])] # Missing
  /\ pc' = [pc EXCEPT ![p] = "r_open"]
  /\ handles' = [handles EXCEPT ![p] = @ \cup {"r"}]
  /\ sawOther' = [sawOther EXCEPT ![p] = Phase(Other(p))]
  /\ UNCHANGED << fs, script, content, updated_content, nsub, stdout, exitCode, doc0 >>

\* open(path, 'r') raises: the file is missing or may not be read.
OpenReadFail(p) ==
  /\ pc[p] = "start"
  /\ pc' = [pc EXCEPT ![p] = "raised"]
  /\ sawOther' = [sawOther EXCEPT ![p] = Phase(Other(p))]
  /\ UNCHANGED << fs, script, content, updated_content, nsub, handles, stdout, exitCode, doc0 >>

\* content = f.read()
Read(p) ==
  /\ pc[p] = "r_open"
  /\ content' = [content EXCEPT ![p] = fs[Path(script[p])]]
  /\ pc' = [pc EXCEPT ![p] = "r_read"]
  /\ UNCHANGED << fs, script, updated_content, nsub, handles, stdout, exitCode, sawOther, doc0 >>

\* f.read() raises inside the with block.
ReadFail(p) ==
  /\ pc[p] = "r_open"
  /\ fs[Path(script[p])] # Missing
  /\ pc' = [pc EXCEPT ![p] = "raised_in_with"]
  /\ UNCHANGED << fs, script, content, updated_content, nsub, handles, stdout, exitCode, sawOther, doc0 >>

\* A variant of the next action for a file object opened without a with
\* block and never closed.
ExitWithLeak(p) ==
  /\ pc[p] \in {"r_read", "w_written", "raised_in_with"}
  /\ pc' = [pc EXCEPT ![p] =
              CASE pc[p] = "r_read" -> "r_closed"
                [] pc[p] = "w_written" -> "w_closed"
                [] pc[p] = "raised_in_with" -> "raised"]
  /\ UNCHANGED << fs, script, content, updated_content, nsub, handles, stdout, exitCode, sawOther, doc0 >>

\* The with block is left: its file object is closed.
ExitWith(p) ==
  /\ pc[p] \in {"r_read", "w_written", "raised_in_with"}
  /\ handles' = [handles EXCEPT ![p] = {}]
  /\ pc' = [pc EXCEPT ![p] =
              CASE pc[p] = "r_read" -> "r_closed"
                [] pc[p] = "w_written" -> "w_closed"
                [] pc[p] = "raised_in_with" -> "raised"]
  /\ UNCHANGED << fs, script, content, updated_content, nsub, stdout, exitCode, sawOther, doc0 >>

\* updated_content = re.sub(pattern, replacement, content, flags=...)
Substitute(p) ==
  /\ pc[p] = "r_closed"
  /\ LET r == re_sub(Pattern(script[p]), Replacement(script[p]), content[p])
     IN  /\ updated_content' = [updated_content EXCEPT ![p] = r.out]
         /\ nsub' = [nsub EXCEPT ![p] = r.n]
  /\ pc' = [pc EXCEPT ![p] = "subbed"]
  /\ UNCHANGED << fs, script, content, handles, stdout, exitCode, sawOther, doc0 >>

\* open(path, 'w') succeeds: the file is created or truncated to nothing.
OpenWrite(p) ==
  /\ pc[p] = "subbed"
  /\ fs' = [fs EXCEPT ![Path(script[p])] = << >>]
  /\ handles' = [handles EXCEPT ![p] = @ \cup {"w"}]
  /\ pc' = [pc EXCEPT ![p] = "w_open"]
  /\ UNCHANGED << script, content, updated_content, nsub, stdout, exitCode, sawOther, doc0 >>

\* open(path, 'w') raises: the file may not be written; nothing is truncated.
OpenWriteFail(p) ==
  /\ pc[p] = "subbed"
  /\ pc' = [pc EXCEPT ![p] = "raised"]
  /\ UNCHANGED << fs, script, content, updated_content, nsub, handles, stdout, exitCode, sawOther, doc0 >>

\* Text written at offset 0 of a file that holds `old`: what lies beyond the
\* written text stays.
Overwrite(old, text) ==
  IF old = Missing \/ Len(old) <= Len(text) THEN text
  ELSE text \o SubSeq(old, Len(text) + 1, Len(old))

\* A variant of the next action that ends what it writes with a line break,
\* as print(updated_content, file=f) does.
WriteLine(p) ==
  /\ pc[p] = "w_open"
  /\ fs' = [fs EXCEPT ![Path(script[p])] =
              Overwrite(@, Append(updated_content[p], "\n"))]
  /\ pc' = [pc EXCEPT ![p] = "w_written"]
  /\ UNCHANGED << script, content, updated_content, nsub, handles, stdout, exitCode, sawOther, doc0 >>

\* f.write(updated_content), flushed.
Write(p) ==
  /\ pc[p] = "w_open"
  /\ fs' = [fs EXCEPT ![Path(script[p])] = Overwrite(@, updated_content[p])]
  /\ pc' = [pc EXCEPT ![p] = "w_written"]
  /\ UNCHANGED << script, content, updated_content, nsub, handles, stdout, exitCode, sawOther, doc0 >>

\* Lengths of what a failed write may have stored of `text`: nothing, or its
\* first half.
PartialLens(text) == {0, Len(text) \div 2}

\* f.write(updated_content) raises (the device is full, an I/O error): a
\* proper prefix of the text is stored.
WriteFail(p) ==
  /\ pc[p] = "w_open"
  /\ \E k \in PartialLens(updated_content[p]) :
       fs' = [fs EXCEPT ![Path(script[p])] =
                Overwrite(@, SubSeq(updated_content[p], 1, k))]
  /\ pc' = [pc EXCEPT ![p] = "raised_in_with"]
  /\ UNCHANGED << script, content, updated_content, nsub, handles, stdout, exitCode, sawOther, doc0 >>

\* print("Updated ...")
PrintMessage(p) ==
  /\ pc[p] = "w_closed"
  /\ stdout' = [stdout EXCEPT ![p] = Append(@, Message(script[p]))]
  /\ pc' = [pc EXCEPT ![p] = "printed"]
  /\ UNCHANGED << fs, script, content, updated_content, nsub, handles, exitCode, sawOther, doc0 >>

\* The end of the script is reached: the interpreter exits with status 0.
Exit(p) ==
  /\ pc[p] = "printed"
  /\ exitCode' = [exitCode EXCEPT ![p] = 0]
  /\ pc' = [pc EXCEPT ![p] = "done"]
  /\ UNCHANGED << fs, script, content, updated_content, nsub, handles, stdout, sawOther, doc0 >>

\* A variant of the next action for an exception that is caught and dropped:
\* the interpreter exits with status 0.
AbortSwallowed(p) ==
  /\ pc[p] = "raised"
  /\ exitCode' = [exitCode EXCEPT ![p] = 0]
  /\ pc' = [pc EXCEPT ![p] = "aborted"]
  /\ UNCHANGED << fs, script, content, updated_content, nsub, handles, stdout, sawOther, doc0 >>

\* An exception reaches the top level: traceback, exit status 1.
Abort(p) ==
  /\ pc[p] = "raised"
  /\ exitCode' = [exitCode EXCEPT ![p] = 1]
  /\ pc' = [pc EXCEPT ![p] = "aborted"]
  /\ UNCHANGED << fs, script, content, updated_content, nsub, handles, stdout, sawOther, doc0 >>

\* The runs of Spec are in succession: the second script is run once the
\* first has run to its end.
MayRun(p) == p = 1 \/ pc[1] = "done"

Next ==
  \E p \in Procs :
    \/ MayRun(p) /\ OpenRead(p)
    \/ MayRun(p) /\ OpenReadFail(p)
    \/ Read(p)
    \/ ReadFail(p)
    \/ ExitWith(p)
    \/ Substitute(p)
    \/ OpenWrite(p)
    \/ OpenWriteFail(p)
    \/ Write(p)
    \/ WriteFail(p)
    \/ PrintMessage(p)
    \/ Exit(p)
    \/ Abort(p)

Spec == Init /\ [][Next]_vars

\* fix_query and fix_consensus_query are run on application.ts with nothing
\* that keeps the two runs apart: their steps interleave in any order.  No
\* file operation fails here.  The document is built from blocks the two
\* scripts target and already patched blocks.
InitConc ==
  /\ \E d \in Layouts(ApplicationTs) :
       /\ WellFormed(d)
       /\ \A i \in 1..Len(d.parts) : d.parts[i].kind \in {"block", "repl"}
       /\ d.gap \in WsRuns(MaxWs)
       /\ InitFiles(ApplicationTs, d)
  /\ script = [p \in Procs |-> IF p = 1 THEN "fix_query" ELSE "fix_consensus_query"]
  /\ InitProcs

NextConc ==
  \E p \in Procs :
    \/ OpenRead(p)
    \/ Read(p)
    \/ ExitWith(p)
    \/ Substitute(p)
    \/ OpenWrite(p)
    \/ Write(p)
    \/ PrintMessage(p)
    \/ Exit(p)

SpecConc == InitConc /\ [][NextConc]_vars

\* ------------------------------------------------------- what is claimed
\* The text of the initial document.
Text0 == DocOf(doc0)

Target(p) == Path(script[p])

\* Run p has computed updated_content.
Substituted(p) == updated_content[p] # Unset

\* Run p is past its f.write.
Wrote(p) == pc[p] \in {"w_written", "w_closed", "printed", "done"}

\* No run has begun after run p.
Latest(p) == p = 2 \/ pc[2] = "start"

\* By the way the initial document was built, its parts that script s
\* targets: the blocks of s in the spacing the pattern spells.
IsTarget(part, s) == part.kind = "block" /\ part.of = s

RECURSIVE Patched(_, _, _, _)
Patched(parts, s, g, at) ==
  IF parts = << >> THEN << >>
  ELSE (IF IsTarget(Head(parts), s) THEN Replacement(s)
        ELSE PartText(Head(parts), g, at))
       \o Patched(Tail(parts), s, g, at)

\* The initial document with every targeted part replaced, the other parts
\* kept in their order.
ExpectedText(s) == Patched(doc0.parts, s, doc0.gap, doc0.at)

ExpectedCount(s) ==
  Cardinality({i \in 1..Len(doc0.parts) : IsTarget(doc0.parts[i], s)})

\* No script's replacement text holds a match of that script's pattern.
NoSelfMatch == \A s \in Scripts : MatchStarts(Pattern(s), Replacement(s), 1) = {}

\* C1: a second run of the same script, after a first one that completed,
\* finds no match, rewrites the file with the content the first run left and
\* prints the same message with exit status 0; and no script's replacement
\* text contains a match of that script's pattern.
C1_Idempotent ==
  /\ NoSelfMatch
  /\ (pc[1] = "done" /\ script[2] = script[1]) =>
       /\ Substituted(2) =>
            /\ content[2] = updated_content[1]
            /\ nsub[2] = 0
            /\ updated_content[2] = content[2]
       /\ Wrote(2) => fs[Target(2)] = updated_content[1]
       /\ pc[2] = "done" =>
            /\ exitCode[2] = 0
            /\ stdout[2] = << Message(script[2]) >>

\* The second run of the same script has completed after a first run that
\* replaced something.
C1_Witness ==
  /\ pc[1] = "done" /\ pc[2] = "done"
  /\ script[2] = script[1]
  /\ nsub[1] > 0

\* C2 as stated: while the first run is under way or has ended in any way,
\* the file holds the complete original or the complete patched content.
C2_NeverPartial ==
  (Exists(doc0) /\ pc[2] = "start") =>
    \/ fs[Target(1)] = Text0
    \/ fs[Target(1)] = re_sub(Pattern(script[1]), Replacement(script[1]), Text0).out

\* C3: when the content a run read holds no match of its pattern, re.sub
\* reports 0 replacements; and with 0 replacements the text it returns is the
\* content read, symbol for symbol, the write stores exactly that, and the
\* run ends with the message and exit status 0, not with an error.
C3_NoOpOnNonMatch ==
  \A p \in Procs :
    /\ (pc[p] = "subbed" /\ MatchStarts(Pattern(script[p]), content[p], 1) = {})
         => nsub[p] = 0
    /\ (Substituted(p) /\ nsub[p] = 0) =>
         /\ updated_content[p] = content[p]
         /\ (Wrote(p) /\ Latest(p)) => fs[Target(p)] = content[p]
         /\ pc[p] = "done" =>
              (exitCode[p] = 0 /\ stdout[p] = << Message(script[p]) >>)

\* A first run on a nonempty document without a match has written it back.
C3_Witness ==
  /\ pc[1] = "done" /\ pc[2] = "start"
  /\ nsub[1] = 0
  /\ content[1] # << >>
  /\ \E i \in 1..Len(doc0.parts) : doc0.parts[i].kind \in {"wide", "repl"}

\* C4: the text re.sub returns for the initial document is the document with
\* every targeted part replaced by the replacement text and every other part
\* kept in place, and the number of replacements is the number of targeted
\* parts.
C4_EveryMatchReplaced ==
  Substituted(1) =>
    /\ updated_content[1] = ExpectedText(script[1])
    /\ nsub[1] = ExpectedCount(script[1])

\* Two matches were replaced in one run.
C4_Witness == Substituted(1) /\ nsub[1] = 2

\* C5 as stated: a run that replaced something and a run that replaced
\* nothing never print the same message.
C5_MessageTellsOutcome ==
  \A p, q \in Procs :
    (pc[p] = "done" /\ pc[q] = "done" /\ nsub[p] > 0 /\ nsub[q] = 0)
      => stdout[p] # stdout[q]

\* C6: the exit status is 0 exactly for a run that reached its end, having
\* read, written (the file holds what it wrote) and printed; a run that
\* raised exits with status 1 and prints nothing; and when the read failed,
\* nothing was substituted or written and the file is as the run found it.
C6_ExitStatus ==
  \A p \in Procs :
    /\ (exitCode[p] = 0) = (pc[p] = "done")
    /\ pc[p] = "done" =>
         /\ content[p] # Unset
         /\ Substituted(p)
         /\ Latest(p) => fs[Target(p)] = updated_content[p]
    /\ pc[p] = "aborted" => exitCode[p] = 1
    /\ pc[p] \in {"raised_in_with", "raised", "aborted"} => stdout[p] = << >>
    /\ (pc[p] \in {"raised_in_with", "raised", "aborted"} /\ content[p] = Unset) =>
         /\ ~Substituted(p)
         /\ fs[Target(p)] =
              (IF p = 1 THEN (IF Exists(doc0) THEN Text0 ELSE Missing)
               ELSE updated_content[1])

\* A run of an existing file aborted before it had read anything.
C6_Witness ==
  /\ Exists(doc0)
  /\ pc[1] = "aborted"
  /\ content[1] = Unset

\* C7 as stated: every block made of the pattern's tokens in order, however
\* the tokens are spaced, is replaced.
C7_AnySpacingMatched ==
  Substituted(1) =>
    nsub[1] = Cardinality({i \in 1..Len(doc0.parts) :
                             /\ doc0.parts[i].kind \in {"block", "wide"}
                             /\ doc0.parts[i].of = script[1]})

\* The names of the fields of the user type, as symbols of a document.
IsField(c) ==
  c \in {"id:", "name:", "email:", "adminNotes:", "adminLabels:",
         "adminUpdatedAt:", "profile?:"}

\* The initial document holds one user type block, in the spacing of
\* Scenario 1 or another the pattern spells, and around it only text without
\* fields; i is where the block is.
OneUserBlockAt(i) ==
  /\ i \in 1..Len(doc0.parts)
  /\ doc0.parts[i] = [kind |-> "block", of |-> "fix_admin_type"]
  /\ \A j \in 1..Len(doc0.parts) : j # i => doc0.parts[j].kind = "tail"

\* C8: on such a document fix_admin_type makes one replacement; the fields
\* of the output are id, name, email, adminNotes, adminLabels,
\* adminUpdatedAt, profile? in this order, once each; what was before the
\* block and what follows `profile?:` is unchanged.
C8_Scenario1 ==
  \A i \in 1..MaxParts :
    (script[1] = "fix_admin_type" /\ Exists(doc0) /\ OneUserBlockAt(i)
       /\ Substituted(1)) =>
      /\ nsub[1] = 1
      /\ SelectSeq(updated_content[1], IsField) =
           << "id:", "name:", "email:", "adminNotes:", "adminLabels:",
              "adminUpdatedAt:", "profile?:" >>
      /\ LET before == Concat(SubSeq(doc0.parts, 1, i - 1), doc0.gap, 0)
             after == Concat(SubSeq(doc0.parts, i + 1, Len(doc0.parts)),
                             doc0.gap, 0)
             n == Len(updated_content[1])
         IN  /\ SubSeq(updated_content[1], 1, Len(before)) = before
             /\ SubSeq(updated_content[1], n - Len(after) + 1, n) = after
             /\ updated_content[1][n - Len(after)] = "profile?:"
             /\ n = Len(before) + Len(new_user_replacement) + Len(after)

\* The document of Scenario 1 has been patched and written.
C8_Witness ==
  /\ script[1] = "fix_admin_type"
  /\ doc0.parts = << [kind |-> "block", of |-> "fix_admin_type"],
                     [kind |-> "tail", of |-> "none"] >>
  /\ doc0.gap = ScenarioIndent
  /\ pc[1] = "done"

\* C9: a run holds at most one file object at a time, the one its position
\* in the script says; it holds none between the two with blocks, after the
\* second and once an exception has left a with block; the variables are set
\* in the order read, substitute; and the message is printed only when the
\* write is done and its file object closed.
C9_LinearRun ==
  \A p \in Procs :
    /\ Cardinality(handles[p]) <= 1
    /\ handles[p] =
         (CASE pc[p] \in {"r_open", "r_read"} -> {"r"}
            [] pc[p] \in {"w_open", "w_written"} -> {"w"}
            [] pc[p] = "raised_in_with" ->
                 (IF Substituted(p) THEN {"w"} ELSE {"r"})
            [] OTHER -> {})
    /\ Substituted(p) => content[p] # Unset
    /\ pc[p] \in {"w_open", "w_written", "w_closed"} => Substituted(p)
    /\ stdout[p] # << >> =>
         /\ pc[p] \in {"printed", "done"}
         /\ Latest(p) => fs[Target(p)] = updated_content[p]

\* A run aborted by an exception in its write has released its file object.
C9_Witness ==
  /\ pc[1] = "aborted"
  /\ Substituted(1)
  /\ fs[Target(1)] # Text0
  /\ handles[1] = {}

\* Neither of the two scripts of application.ts puts a text the other's
\* pattern matches.
NoCrossMatch ==
  /\ MatchStarts(old_consensus_pattern, new_replacement, 1) = {}
  /\ MatchStarts(old_pattern, new_consensus_replacement, 1) = {}

BothDone == pc[1] = "done" /\ pc[2] = "done"

\* One of the two runs opened the file when the other had exited.
OneAfterTheOther == sawOther[1] = "exited" \/ sawOther[2] = "exited"

\* Both runs read the initial document and both found a match in it.
BothPatchedTheOriginal ==
  /\ content[1] = Text0 /\ content[2] = Text0
  /\ nsub[1] > 0 /\ nsub[2] > 0

QueryThenConsensus ==
  re_sub(old_consensus_pattern, new_consensus_replacement,
         re_sub(old_pattern, new_replacement, Text0).out).out

ConsensusThenQuery ==
  re_sub(old_pattern, new_replacement,
         re_sub(old_consensus_pattern, new_consensus_replacement, Text0).out).out

\* C10: when fix_query and fix_consensus_query have run one after the other,
\* in either order, the file holds what the other order yields as well; and
\* when both have read the original and each patched its own block, the file
\* they leave still holds a match of one of the two patterns: one patch is
\* lost.
C10_CommuteInSuccession ==
  /\ NoCrossMatch
  /\ (BothDone /\ OneAfterTheOther) =>
       /\ fs[ApplicationTs] = QueryThenConsensus
       /\ fs[ApplicationTs] = ConsensusThenQuery
  /\ (BothDone /\ BothPatchedTheOriginal) =>
       \/ MatchStarts(old_pattern, fs[ApplicationTs], 1) # {}
       \/ MatchStarts(old_consensus_pattern, fs[ApplicationTs], 1) # {}

\* fix_consensus_query ran first and fix_query after it, and each replaced
\* a block.
C10_Witness ==
  /\ BothDone
  /\ sawOther[1] = "exited"
  /\ nsub[1] > 0 /\ nsub[2] > 0

\* The two runs interleaved and one patch was lost.
C10_LostUpdate == BothDone /\ BothPatchedTheOriginal
====
